---- MODULE Spec2Model ----
(***************************************************************************)
(* A model of components/engine/src/rocks/sst.rs: SstWriterBuilder,        *)
(* SstWriter and SstReader, together with the parts of the storage engine  *)
(* they drive (column-family options, file environments, the native SST    *)
(* file writer and reader).                                                *)
(*                                                                         *)
(* One builder is constructed, configured, and built into one writer; the  *)
(* writer is appended to and finalized; the finished file is reopened by a *)
(* reader or read back through the stream finish_read returns.             *)
(***************************************************************************)
EXTENDS Integers, Sequences, FiniteSets

VARIABLES
    supported,   \* the engine's supported_compression() set
    dbs,         \* the source databases: column families, their options, env
    phase,       \* where the caller is in the builder/writer life cycle
    builder,     \* the SstWriterBuilder value (fields cf, db, in_memory, compression_type)
    built,       \* the builder value that build consumed, and its path
    writer,      \* the SstWriter value (native writer + env), or NoWriter
    fs,          \* the real filesystem: path -> file
    mem,         \* the memory environment build created, if it is alive
    accepted,    \* the put/delete calls that returned Ok, in order
    ret,         \* the value the last call returned
    final,       \* what finish or finish_read returned
    reader,      \* the SstReader value, or NoReader
    stream       \* the SequentialFile of finish_read, and what was read from it

vars == <<supported, dbs, phase, builder, built, writer, fs, mem, accepted,
          ret, final, reader, stream>>

----------------------------------------------------------------------------
(* Bounds of the model. *)

MaxKey == 3
MaxVal == 2

Keys == 1..MaxKey
Vals == 1..MaxVal

----------------------------------------------------------------------------
(* Values of the engine's types. *)

None == "None"
NoFile == [exists |-> FALSE, bytes |-> <<>>]
EmptyFile == [exists |-> TRUE, bytes |-> <<>>]
NoWriter == [open |-> FALSE]
NoReader == [open |-> FALSE, path |-> None]
NoStream == [open |-> FALSE, done |-> FALSE, env |-> None, path |-> None, len |-> 0]

\* DBCompressionType, the closed enumeration of the engine.
DBCompressionType ==
    {"No", "Snappy", "Zlib", "Bz2", "Lz4", "Lz4hc", "Zstd", "ZstdNotFinal", "Disable"}

\* The sets supported_compression() may return: what was compiled in.
SupportedSets ==
    { {"No"},
      {"No", "Snappy", "Zlib"},
      {"No", "Snappy", "Zlib", "Bz2", "Lz4", "Lz4hc", "Zstd", "ZstdNotFinal"} }

CF_DEFAULT == "default"
CfNames == {"default", "write", "lock"}

\* Paths handed to build: one whose directory exists, one whose directory
\* does not (the real filesystem refuses to create a file there).
GoodPath == "/tmp/test_sst_writer/sst"
BadPath == "/nodir/sst"
Paths == {GoodPath, BadPath}

\* ColumnFamilyOptions::new(): the engine's default options.
DefaultCfOptions ==
    [compression |-> "Snappy", compression_per_level |-> <<>>,
     bottommost_compression |-> "Disable", env |-> None]

\* The source databases a builder may be bound to. db1 exposes no
\* environment (DB::env() is None); db2 exposes one, a wrapper over the real
\* filesystem.  Both have the column families default and write; the column
\* family options carry their own compression settings.
DbEnv == "DbEnv"
MemEnv == "MemEnv"
DbIds == {"db1", "db2"}
InitDbs ==
    [d \in DbIds |->
        [env |-> IF d = "db2" THEN DbEnv ELSE None,
         cfs |-> [c \in {"default", "write"} |->
                    IF c = "default"
                    THEN [compression |-> "Lz4",
                          compression_per_level |-> <<"No", "Lz4">>,
                          bottommost_compression |-> "Zstd", env |-> None]
                    ELSE [compression |-> "Zstd",
                          compression_per_level |-> <<>>,
                          bottommost_compression |-> "Disable", env |-> None]]]]

\* SstWriterBuilder::new()
NewBuilder ==
    [cf |-> None, in_memory |-> FALSE, db |-> None, compression_type |-> None]

\* Every value of the struct SstWriterBuilder.
BuilderValues ==
    [cf : CfNames \cup {None}, in_memory : BOOLEAN, db : DbIds \cup {None},
     compression_type : DBCompressionType \cup {None}]

NoBuilt == [path |-> None, b |-> NewBuilder]

\* An environment with no file in it; NoMem is the absence of a memory
\* environment (none created yet, or dropped with its last owner).
EmptyFiles == [p \in Paths |-> NoFile]
NoMem == [live |-> FALSE, files |-> EmptyFiles]

----------------------------------------------------------------------------
(* File environments.  An options bundle with env None or DbEnv writes to  *)
(* the real filesystem; one with env MemEnv writes to the memory           *)
(* environment.                                                            *)

InMemEnv(env) == env = MemEnv

\* The file at path as seen through env.
FileIn(env, path, fsv, memv) ==
    IF InMemEnv(env) THEN memv.files[path] ELSE fsv[path]

\* The real filesystem after storing file at path through env.
FsAfter(env, path, file, fsv) ==
    IF InMemEnv(env) THEN fsv ELSE [fsv EXCEPT ![path] = file]

\* The memory environment after storing file at path through env.
MemAfter(env, path, file, memv) ==
    IF InMemEnv(env) THEN [memv EXCEPT !.files[path] = file] ELSE memv

\* Env::new_mem(): a fresh, empty memory environment.
NewMem == [live |-> TRUE, files |-> EmptyFiles]

----------------------------------------------------------------------------
(* SstWriterBuilder *)

\* set_db: self.db = Some(db); self
set_db_value(b, db) == [b EXCEPT !.db = db]

\* set_cf: self.cf = Some(cf); self
set_cf_value(b, cf) == [b EXCEPT !.cf = cf]

\* set_in_memory: self.in_memory = in_memory; self
set_in_memory_value(b, flag) == [b EXCEPT !.in_memory = flag]

\* set_compression_type: self.compression_type = compression_type, on the
\* builder that was moved into the call.
set_compression_type_value(b, ct) == [b EXCEPT !.compression_type = ct]

\* What each setter hands back to its caller: the three setters declared
\* "-> Self" return the builder; set_compression_type has no return type and
\* no tail expression, so it returns () and the builder it consumed is dropped.
SetterReturns(op) ==
    IF op = "set_compression_type" THEN "Unit" ELSE "Self"

\* build, lines 59-67: the column family in effect.
CfInEffect(b) == IF b.cf = None THEN CF_DEFAULT ELSE b.cf

\* build, lines 61-63: db.cf_handle(..) is Some.
CfFound(b, dbsv) ==
    b.db # None => CfInEffect(b) \in DOMAIN dbsv[b.db].cfs

\* build, lines 59-67: the base options, a clone of the column family's
\* options or the defaults.
BaseOptions(b, dbsv) ==
    IF b.db # None THEN dbsv[b.db].cfs[CfInEffect(b)] ELSE DefaultCfOptions

\* build, lines 58-60: env = db.env(), or None without a database.
CandidateEnv(b, dbsv) == IF b.db # None THEN dbsv[b.db].env ELSE None

\* build, lines 68-75: the env the SstWriter keeps.  In-memory mode replaces
\* the candidate by the fresh memory environment; otherwise the candidate
\* (the database's env, or None) is kept as it is.
WriterEnvDropsDbEnv(b, dbsv) == IF b.in_memory THEN MemEnv ELSE None

WriterEnv(b, dbsv) ==
    IF b.in_memory THEN MemEnv ELSE CandidateEnv(b, dbsv)

\* build, lines 68-75: io_options.set_env(..).
OptionsWithEnvIgnoresInMemory(b, dbsv, opts) ==
    IF CandidateEnv(b, dbsv) # None
    THEN [opts EXCEPT !.env = CandidateEnv(b, dbsv)]
    ELSE opts

OptionsWithEnv(b, dbsv, opts) ==
    IF b.in_memory THEN [opts EXCEPT !.env = MemEnv]
    ELSE IF CandidateEnv(b, dbsv) # None
         THEN [opts EXCEPT !.env = CandidateEnv(b, dbsv)]
         ELSE opts

\* fmt_db_compression_type: the name of an algorithm for the error message;
\* unreachable!() (a panic) for every algorithm but lz4, snappy and zstd.
fmt_db_compression_type(ct) ==
    CASE ct = "Lz4" -> "lz4"
      [] ct = "Snappy" -> "snappy"
      [] ct = "Zstd" -> "zstd"
      [] OTHER -> "unreachable"

\* util::get_fastest_supported_compression_type: the first supported
\* algorithm of the fixed preference order, or no compression.
get_fastest_supported_compression_type(sup) ==
    IF "Lz4" \in sup THEN "Lz4"
    ELSE IF "Snappy" \in sup THEN "Snappy"
    ELSE IF "Zstd" \in sup THEN "Zstd"
    ELSE "No"

\* build, lines 76-87: the outcome of resolving the compression algorithm.
ResolveCompression(b, sup) ==
    IF b.compression_type # None
    THEN IF b.compression_type \notin sup
         THEN IF fmt_db_compression_type(b.compression_type) = "unreachable"
              THEN [status |-> "Panic", err |-> "unreachable", ct |-> None]
              ELSE [status |-> "Err", err |-> "UnsupportedCompression",
                    ct |-> None]
         ELSE [status |-> "Ok", err |-> None, ct |-> b.compression_type]
    ELSE [status |-> "Ok", err |-> None,
          ct |-> get_fastest_supported_compression_type(sup)]

\* build, lines 88-93: the chosen algorithm is set, the per-level list is
\* emptied and bottommost compression is disabled.
ApplyCompressionKeepsOverrides(opts, ct) == [opts EXCEPT !.compression = ct]

ApplyCompression(opts, ct) ==
    [opts EXCEPT !.compression = ct,
                 !.compression_per_level = <<>>,
                 !.bottommost_compression = "Disable"]

\* The algorithm the native writer compresses with (comment of lines 89-91):
\* bottommost_compression and compression_per_level are tried first.
EffectiveCompression(opts) ==
    IF opts.bottommost_compression # "Disable" THEN opts.bottommost_compression
    ELSE IF opts.compression_per_level # <<>>
         THEN opts.compression_per_level[Len(opts.compression_per_level)]
         ELSE opts.compression

\* SstFileWriter::open(path), line 95: the file is created (truncated) in the
\* options' environment.  The real filesystem refuses a path whose directory
\* does not exist; a memory environment has no directories to miss.
OpenFails(opts, path) == ~InMemEnv(opts.env) /\ path = BadPath

\* A failed build: nothing is returned but the error, no file was touched, and
\* a memory environment created on the way is dropped with the options.
BuildFailure(status, err, dbsv, fsv) ==
    [status |-> status, err |-> err, writer |-> NoWriter, fs |-> fsv,
     mem |-> NoMem, dbs |-> dbsv]

\* The native writer right after SstFileWriter::new + open.
NativeOpened(opts, path) ==
    [state |-> "open", path |-> path, opts |-> opts, last_key |-> 0,
     num_entries |-> 0, file_size |-> 0, finish_called |-> FALSE]

\* build, lines 76-96, once the base options are resolved.
BuildFrom(b, path, sup, dbsv, fsv) ==
    LET rc == ResolveCompression(b, sup)
        opts == ApplyCompression(
                    OptionsWithEnv(b, dbsv, BaseOptions(b, dbsv)), rc.ct)
    IN  IF rc.status # "Ok" THEN BuildFailure(rc.status, rc.err, dbsv, fsv)
        ELSE IF OpenFails(opts, path)
        THEN BuildFailure("Err", "EngineIoError", dbsv, fsv)
        ELSE [status |-> "Ok", err |-> None,
              writer |-> [open |-> TRUE,
                          native |-> NativeOpened(opts, path),
                          env |-> WriterEnv(b, dbsv)],
              fs |-> FsAfter(opts.env, path, EmptyFile, fsv),
              mem |-> IF b.in_memory
                      THEN MemAfter(opts.env, path, EmptyFile, NewMem)
                      ELSE NoMem,
              dbs |-> dbsv]

\* SstWriterBuilder::build(self, path): the column family is looked up
\* first, then the environment and the compression are resolved, then the
\* native writer is opened.
BuildCompressionFirst(b, path, sup, dbsv, fsv) ==
    IF ResolveCompression(b, sup).status # "Ok"
    THEN BuildFailure(ResolveCompression(b, sup).status,
                      ResolveCompression(b, sup).err, dbsv, fsv)
    ELSE IF ~CfFound(b, dbsv)
    THEN BuildFailure("Err", "ColumnFamilyNotFound", dbsv, fsv)
    ELSE BuildFrom(b, path, sup, dbsv, fsv)

Build(b, path, sup, dbsv, fsv) ==
    IF ~CfFound(b, dbsv)
    THEN BuildFailure("Err", "ColumnFamilyNotFound", dbsv, fsv)
    ELSE BuildFrom(b, path, sup, dbsv, fsv)

----------------------------------------------------------------------------
(* The SST file format, as far as this module depends on it: a put record  *)
(* is <<2, key, value>>, a tombstone is <<1, key>>, and the footer that     *)
(* finish appends is <<0, number of entries>>.                              *)

EncodePut(key, val) == <<2, key, val>>
EncodeDelete(key) == <<1, key>>
EncodeFooter(n) == <<0, n>>

PutRecord(key, val) == [kind |-> "put", key |-> key, val |-> val]
DeleteRecord(key) == [kind |-> "delete", key |-> key, val |-> 0]

RECURSIVE ParseFrom(_, _, _)
\* The table reader: the records of a file, and whether it is well formed
\* (every record complete, closed by a footer that counts them).
ParseFrom(bytes, i, acc) ==
    IF i > Len(bytes) THEN [ok |-> FALSE, recs |-> acc]
    ELSE IF bytes[i] = 2
    THEN IF i + 2 <= Len(bytes)
         THEN ParseFrom(bytes, i + 3,
                        Append(acc, PutRecord(bytes[i + 1], bytes[i + 2])))
         ELSE [ok |-> FALSE, recs |-> acc]
    ELSE IF bytes[i] = 1
    THEN IF i + 1 <= Len(bytes)
         THEN ParseFrom(bytes, i + 2, Append(acc, DeleteRecord(bytes[i + 1])))
         ELSE [ok |-> FALSE, recs |-> acc]
    ELSE [ok |-> i + 1 = Len(bytes) /\ bytes[i + 1] = Len(acc), recs |-> acc]

Parse(bytes) == ParseFrom(bytes, 1, <<>>)

----------------------------------------------------------------------------
(* The native writer, SstFileWriter, behind SstWriter. *)

\* A key is accepted when it sorts strictly after the last key added.
KeyAccepted(n, key) ==
    n.state = "open" /\ (n.num_entries = 0 \/ key > n.last_key)

\* SstFileWriter::put / delete: append one record, count it, track the size.
NativeAddCountsPutsOnly(n, key, bytes) ==
    [n EXCEPT !.last_key = key,
              !.num_entries = IF bytes[1] = 2 THEN @ + 1 ELSE @,
              !.file_size = @ + Len(bytes)]

NativeAdd(n, key, bytes) ==
    [n EXCEPT !.last_key = key, !.num_entries = @ + 1,
              !.file_size = @ + Len(bytes)]

\* SstFileWriter::finish: an empty file is refused; otherwise the footer is
\* written and the file closed.
NativeFinishOk(n) == n.state = "open" /\ n.num_entries > 0

NativeFinishSizeWithoutFooter(n) ==
    [n EXCEPT !.state = "finished", !.finish_called = TRUE]

NativeFinish(n) ==
    [n EXCEPT !.state = "finished", !.finish_called = TRUE,
              !.file_size = @ + Len(EncodeFooter(n.num_entries))]

\* SstFileWriter::finish on a writer it refuses: nothing is written.
NativeFinishRefused(n) == [n EXCEPT !.finish_called = TRUE]

\* ExternalSstFileInfo of a finished native writer.
FileInfo(n) ==
    [file_path |-> n.path, num_entries |-> n.num_entries,
     file_size |-> n.file_size]

NoInfo == [file_path |-> None, num_entries |-> 0, file_size |-> 0]

\* Dropping an SstFileWriter that was not finished abandons the table.
NativeDrop(n) == IF n.state = "open" THEN [n EXCEPT !.state = "abandoned"] ELSE n

----------------------------------------------------------------------------
(* SstWriter *)

\* The outcome of put/delete: the writer and its file afterwards.
Append_(w, key, bytes, fsv, memv) ==
    LET n == w.native
        file == FileIn(n.opts.env, n.path, fsv, memv)
        file2 == [file EXCEPT !.bytes = @ \o bytes]
    IN  IF KeyAccepted(n, key)
        THEN [ok |-> TRUE, err |-> None,
              writer |-> [w EXCEPT !.native = NativeAdd(n, key, bytes)],
              fs |-> FsAfter(n.opts.env, n.path, file2, fsv),
              mem |-> MemAfter(n.opts.env, n.path, file2, memv)]
        ELSE [ok |-> FALSE, err |-> "EngineError", writer |-> w,
              fs |-> fsv, mem |-> memv]

\* SstWriter::put
Put(w, key, val, fsv, memv) == Append_(w, key, EncodePut(key, val), fsv, memv)

\* SstWriter::delete
Delete(w, key, fsv, memv) == Append_(w, key, EncodeDelete(key), fsv, memv)

\* SstWriter::file_size
FileSize(w) == w.native.file_size

\* self.writer.finish(): the native writer and its file afterwards.
FinishNative(w, fsv, memv) ==
    LET n == w.native
        file == FileIn(n.opts.env, n.path, fsv, memv)
        file2 == [file EXCEPT !.bytes = @ \o EncodeFooter(n.num_entries)]
    IN  IF NativeFinishOk(n)
        THEN [ok |-> TRUE, err |-> None, native |-> NativeFinish(n),
              info |-> FileInfo(NativeFinish(n)),
              fs |-> FsAfter(n.opts.env, n.path, file2, fsv),
              mem |-> MemAfter(n.opts.env, n.path, file2, memv)]
        ELSE [ok |-> FALSE, err |-> "EngineError",
              native |-> NativeFinishRefused(n),
              info |-> NoInfo, fs |-> fsv, mem |-> memv]

\* The writer once a consuming call has returned: its native writer is
\* dropped (abandoned if it was never finished).
Consumed(w, n) == [w EXCEPT !.open = FALSE, !.native = NativeDrop(n)]

\* SstWriter::finish(self): finalize; the writer, and with it a memory
\* environment it owns, is dropped on return.
Finish(w, fsv, memv) ==
    LET f == FinishNative(w, fsv, memv)
    IN  [ok |-> f.ok, err |-> f.err, info |-> f.info,
         writer |-> Consumed(w, f.native), fs |-> f.fs, mem |-> NoMem,
         stream |-> NoStream]

\* p.as_os_str().to_str(): the path came from the &str given to build.
to_str_ok(path) == path \in Paths

\* env.new_sequential_file(path): the file must exist in that environment.
NewSequentialFile(env, path, fsv, memv) ==
    IF FileIn(env, path, fsv, memv).exists
    THEN [open |-> TRUE, done |-> FALSE, env |-> env, path |-> path, len |-> 0]
    ELSE NoStream

\* SstWriter::finish_read(self) with the finalization done first and the
\* environment looked at afterwards.
FinishReadFinalizesFirst(w, fsv, memv) ==
    LET f == FinishNative(w, fsv, memv)
    IN  IF ~f.ok
        THEN [ok |-> FALSE, err |-> f.err, info |-> NoInfo,
              writer |-> Consumed(w, f.native), fs |-> f.fs, mem |-> NoMem,
              stream |-> NoStream]
        ELSE IF w.env = None
        THEN [ok |-> FALSE, err |-> "MissingEnvironment", info |-> NoInfo,
              writer |-> Consumed([w EXCEPT !.env = None], f.native),
              fs |-> f.fs, mem |-> f.mem, stream |-> NoStream]
        ELSE [ok |-> TRUE, err |-> None, info |-> f.info,
              writer |-> Consumed([w EXCEPT !.env = None], f.native),
              fs |-> f.fs, mem |-> f.mem,
              stream |-> NewSequentialFile(w.env, f.info.file_path, f.fs, f.mem)]

\* SstWriter::finish_read(self): take the env (lines 139-142), finish the
\* native writer (143), check the path (144-148), open the stream (149).
FinishRead(w, fsv, memv) ==
    IF w.env = None
    THEN [ok |-> FALSE, err |-> "MissingEnvironment", info |-> NoInfo,
          writer |-> Consumed(w, w.native), fs |-> fsv, mem |-> memv,
          stream |-> NoStream]
    ELSE LET f == FinishNative(w, fsv, memv)
             s == NewSequentialFile(w.env, f.info.file_path, f.fs, f.mem)
         IN  IF ~f.ok
             THEN [ok |-> FALSE, err |-> f.err, info |-> NoInfo,
                   writer |-> Consumed([w EXCEPT !.env = None], f.native),
                   fs |-> f.fs, mem |-> NoMem, stream |-> NoStream]
             ELSE IF ~to_str_ok(f.info.file_path)
             THEN [ok |-> FALSE, err |-> "InvalidPath", info |-> NoInfo,
                   writer |-> Consumed([w EXCEPT !.env = None], f.native),
                   fs |-> f.fs, mem |-> NoMem, stream |-> NoStream]
             ELSE IF ~s.open
             THEN [ok |-> FALSE, err |-> "EngineIoError", info |-> NoInfo,
                   writer |-> Consumed([w EXCEPT !.env = None], f.native),
                   fs |-> f.fs, mem |-> NoMem, stream |-> NoStream]
             ELSE [ok |-> TRUE, err |-> None, info |-> f.info,
                   writer |-> Consumed([w EXCEPT !.env = None], f.native),
                   fs |-> f.fs, mem |-> f.mem, stream |-> s]

\* SequentialFile::read_to_end: every byte of the file, from its start.
ReadToEndBytes(s, fsv, memv) == FileIn(s.env, s.path, fsv, memv).bytes

----------------------------------------------------------------------------
(* SstReader *)

\* SstReader::open(path): default options, so the real filesystem; the file
\* must exist and be a well-formed SST file.
ReaderOpenOk(path, fsv) == fsv[path].exists /\ Parse(fsv[path].bytes).ok

RECURSIVE LiveOf(_)
\* The iterator over a table shows the live records: a tombstone hides its
\* key and is not itself yielded.
LiveOf(recs) ==
    IF recs = <<>> THEN <<>>
    ELSE IF Head(recs).kind = "put"
         THEN <<PutRecord(Head(recs).key, Head(recs).val)>> \o LiveOf(Tail(recs))
         ELSE LiveOf(Tail(recs))

\* SstReader::iter(&self)
IterYieldsTombstones(rd, fsv) == Parse(fsv[rd.path].bytes).recs

Iter(rd, fsv) == LiveOf(Parse(fsv[rd.path].bytes).recs)

\* SstReader::verify_checksum(&self)
VerifyChecksumOk(rd, fsv) == fsv[rd.path].exists /\ Parse(fsv[rd.path].bytes).ok

----------------------------------------------------------------------------
(* The state machine. *)

Ret(op, ok, err, arg, out) ==
    [op |-> op, ok |-> ok, err |-> err, arg |-> arg, out |-> out]

NoFinal == [op |-> None, ok |-> FALSE, err |-> None, info |-> NoInfo]

InitRest ==
    /\ supported \in SupportedSets
    /\ dbs = InitDbs
    /\ phase = "builder"
    /\ built = NoBuilt
    /\ writer = NoWriter
    /\ fs = EmptyFiles
    /\ mem = NoMem
    /\ accepted = <<>>
    /\ ret = Ret("new", TRUE, None, None, None)
    /\ final = NoFinal
    /\ reader = NoReader
    /\ stream = NoStream

\* SstWriterBuilder::new()
Init == builder = NewBuilder /\ InitRest

\* build taken as a function of the builder value: every value of the struct.
InitBuild == builder \in BuilderValues /\ InitRest

\* A setter call: the builder is moved in and changed; the caller holds a
\* builder afterwards only if the setter returned one.
Setter(op, newb, arg) ==
    /\ phase = "builder"
    /\ builder' = newb
    /\ phase' = IF SetterReturns(op) = "Self" THEN "builder" ELSE "dropped"
    /\ ret' = Ret(op, TRUE, None, arg, SetterReturns(op))
    /\ UNCHANGED <<supported, dbs, built, writer, fs, mem, accepted, final,
                   reader, stream>>

set_db == \E db \in DbIds : Setter("set_db", set_db_value(builder, db), db)

set_cf == \E cf \in CfNames : Setter("set_cf", set_cf_value(builder, cf), cf)

set_in_memory ==
    \E flag \in BOOLEAN :
        Setter("set_in_memory", set_in_memory_value(builder, flag), flag)

set_compression_type ==
    \E ct \in DBCompressionType \cup {None} :
        Setter("set_compression_type", set_compression_type_value(builder, ct), ct)

build ==
    \E path \in Paths :
        LET r == Build(builder, path, supported, dbs, fs)
        IN  /\ phase = "builder"
            /\ phase' = CASE r.status = "Ok" -> "writer"
                          [] r.status = "Err" -> "failed"
                          [] OTHER -> "panicked"
            /\ built' = [path |-> path, b |-> builder]
            /\ writer' = r.writer
            /\ fs' = r.fs
            /\ mem' = r.mem
            /\ dbs' = r.dbs
            /\ ret' = Ret("build", r.status = "Ok", r.err, path, r.status)
            /\ UNCHANGED <<supported, builder, accepted, final, reader, stream>>

put ==
    \E key \in Keys, val \in Vals :
        LET r == Put(writer, key, val, fs, mem)
        IN  /\ phase = "writer"
            /\ writer' = r.writer
            /\ fs' = r.fs
            /\ mem' = r.mem
            /\ accepted' = IF r.ok THEN Append(accepted, PutRecord(key, val))
                           ELSE accepted
            /\ ret' = Ret("put", r.ok, r.err, None, None)
            /\ UNCHANGED <<supported, dbs, phase, builder, built, final,
                           reader, stream>>

delete ==
    \E key \in Keys :
        LET r == Delete(writer, key, fs, mem)
        IN  /\ phase = "writer"
            /\ writer' = r.writer
            /\ fs' = r.fs
            /\ mem' = r.mem
            /\ accepted' = IF r.ok THEN Append(accepted, DeleteRecord(key))
                           ELSE accepted
            /\ ret' = Ret("delete", r.ok, r.err, None, None)
            /\ UNCHANGED <<supported, dbs, phase, builder, built, final,
                           reader, stream>>

file_size ==
    /\ phase = "writer"
    /\ ret' = Ret("file_size", TRUE, None, None, FileSize(writer))
    /\ UNCHANGED <<supported, dbs, phase, builder, built, writer, fs, mem,
                   accepted, final, reader, stream>>

\* What a consuming call leaves behind.
Finalize(op, r) ==
    /\ phase = "writer"
    /\ phase' = "closed"
    /\ writer' = r.writer
    /\ fs' = r.fs
    /\ mem' = r.mem
    /\ stream' = r.stream
    /\ final' = [op |-> op, ok |-> r.ok, err |-> r.err, info |-> r.info]
    /\ ret' = Ret(op, r.ok, r.err, None, None)
    /\ UNCHANGED <<supported, dbs, builder, built, accepted, reader>>

finish == Finalize("finish", Finish(writer, fs, mem))

finish_read == Finalize("finish_read", FinishRead(writer, fs, mem))

read_to_end ==
    /\ stream.open
    /\ ~stream.done
    /\ stream' = [stream EXCEPT !.done = TRUE,
                                !.len = Len(ReadToEndBytes(stream, fs, mem))]
    /\ ret' = Ret("read_to_end", TRUE, None, None,
                  Len(ReadToEndBytes(stream, fs, mem)))
    /\ UNCHANGED <<supported, dbs, phase, builder, built, writer, fs, mem,
                   accepted, final, reader>>

reader_open ==
    \E path \in Paths :
        /\ phase = "closed"
        /\ ~reader.open
        /\ reader' = IF ReaderOpenOk(path, fs)
                     THEN [open |-> TRUE, path |-> path] ELSE reader
        /\ ret' = Ret("open", ReaderOpenOk(path, fs),
                      IF ReaderOpenOk(path, fs) THEN None ELSE "EngineError",
                      path, None)
        /\ UNCHANGED <<supported, dbs, phase, builder, built, writer, fs, mem,
                       accepted, final, stream>>

iter ==
    /\ reader.open
    /\ ret' = Ret("iter", TRUE, None, None, Iter(reader, fs))
    /\ UNCHANGED <<supported, dbs, phase, builder, built, writer, fs, mem,
                   accepted, final, reader, stream>>

verify_checksum ==
    /\ reader.open
    /\ ret' = Ret("verify_checksum", VerifyChecksumOk(reader, fs),
                  IF VerifyChecksumOk(reader, fs) THEN None ELSE "EngineError",
                  None, None)
    /\ UNCHANGED <<supported, dbs, phase, builder, built, writer, fs, mem,
                   accepted, final, reader, stream>>

Next ==
    \/ set_db
    \/ set_cf
    \/ set_in_memory
    \/ set_compression_type
    \/ build
    \/ put
    \/ delete
    \/ file_size
    \/ finish
    \/ finish_read
    \/ read_to_end
    \/ reader_open
    \/ iter
    \/ verify_checksum

Spec == Init /\ [][Next]_vars

\* build as a function of the builder value: only the builder's operations.
NextBuild ==
    \/ set_db
    \/ set_cf
    \/ set_in_memory
    \/ set_compression_type
    \/ build

SpecBuild == InitBuild /\ [][NextBuild]_vars

----------------------------------------------------------------------------
(* Properties. *)

NumPuts(recs) == Len(SelectSeq(recs, LAMBDA r : r.kind = "put"))
NumDeletes(recs) == Len(SelectSeq(recs, LAMBDA r : r.kind = "delete"))
PutsOf(recs) == SelectSeq(recs, LAMBDA r : r.kind = "put")

\* The builder value and path the writer was built from.
BuiltDisk == built.path # None /\ ~built.b.in_memory
BuiltInMemory == built.path # None /\ built.b.in_memory
BuiltCf == IF built.b.cf = None THEN "default" ELSE built.b.cf
BuiltDbHasEnv == built.b.db # None /\ dbs[built.b.db].env # None

C2_UnsupportedCompressionIsAnError ==
    (/\ ret.op = "build"
     /\ built.b.compression_type # None
     /\ built.b.compression_type \notin supported
     /\ (built.b.db # None => BuiltCf \in DOMAIN dbs[built.b.db].cfs))
        => /\ ret.out = "Err"
           /\ ret.err = "UnsupportedCompression"
           /\ fs = EmptyFiles
           /\ ~mem.live

\* C3: with a source database set and the column family in effect absent
\* from it, build fails with ColumnFamilyNotFound whatever the in-memory flag
\* and the compression setting are (also one that is unsupported), without a
\* writer, without a file opened, and with the database unchanged.
C3_ColumnFamilyNotFoundFirst ==
    (/\ ret.op = "build"
     /\ built.b.db # None
     /\ BuiltCf \notin DOMAIN InitDbs[built.b.db].cfs)
        => /\ ret.out = "Err"
           /\ ret.err = "ColumnFamilyNotFound"
           /\ ~writer.open
           /\ fs = EmptyFiles
           /\ ~mem.live
           /\ dbs = InitDbs

\* An in-memory build with a compression request that could not be resolved,
\* stopped by the missing column family.
C3_Witness ==
    /\ ret.op = "build"
    /\ built.b.db = "db2"
    /\ built.b.cf = "lock"
    /\ built.b.in_memory
    /\ built.b.compression_type = "Disable"
    /\ ret.err = "ColumnFamilyNotFound"

\* C4: after a disk-mode build and finish there is an entry at the target
\* path of the real filesystem; after an in-memory build and finish or
\* finish_read there is none, and after a successful finish_read the written
\* records are in the memory environment of that build, which is the
\* environment of the writer's options even when the database has its own.
C4_BackendsExclusive ==
    /\ (final.op = "finish" /\ BuiltDisk) => fs[built.path].exists
    /\ (final.op \in {"finish", "finish_read"} /\ BuiltInMemory)
            => (~fs[built.path].exists /\ fs = EmptyFiles)
    /\ (final.op \in {"finish", "finish_read"} /\ BuiltInMemory)
            => writer.native.opts.env = MemEnv
    /\ (final.op = "finish_read" /\ final.ok /\ BuiltInMemory)
            => /\ mem.live
               /\ mem.files[built.path].exists
               /\ Parse(mem.files[built.path].bytes).ok
               /\ Parse(mem.files[built.path].bytes).recs = accepted

\* An in-memory writer built from a database that exposes an environment,
\* read back after two records.
C4_Witness ==
    /\ final.op = "finish_read"
    /\ final.ok
    /\ BuiltInMemory
    /\ BuiltDbHasEnv
    /\ Len(accepted) >= 2

\* C5 (as stated): with N >= 1 accepted put calls, the summary of a
\* successful finish has num_entries = N and file_size > 0.
C5_NumEntriesIsNumPuts ==
    (final.op = "finish" /\ final.ok /\ NumPuts(accepted) >= 1)
        => /\ final.info.num_entries = NumPuts(accepted)
           /\ final.info.file_size > 0

\* C5 (amended): the summary of a successful finish counts every accepted
\* record, puts and tombstones alike: num_entries is the number of accepted
\* put calls plus the number of accepted delete calls (so N when no delete
\* was accepted), and file_size > 0; rejected calls are not counted.
C5_NumEntriesIsNumAccepted ==
    (final.op = "finish" /\ final.ok)
        => /\ final.info.num_entries = NumPuts(accepted) + NumDeletes(accepted)
           /\ NumDeletes(accepted) = 0
                => final.info.num_entries = NumPuts(accepted)
           /\ final.info.file_size > 0

\* A finished writer that accepted puts and a tombstone.
C5_Witness ==
    /\ final.op = "finish"
    /\ final.ok
    /\ NumPuts(accepted) >= 2
    /\ NumDeletes(accepted) >= 1

\* C6: for an in-memory writer, reading the stream of a successful
\* finish_read to its end yields exactly file_size bytes, and the summary
\* finish_read returns is the one finish returns from the same writer.
C6_StreamLengthIsFileSize ==
    /\ [](((stream.done /\ final.op = "finish_read" /\ BuiltInMemory)
            => (final.ok /\ stream.len = final.info.file_size)))
    /\ [][(phase = "writer" /\ final'.op = "finish_read" /\ final'.ok)
            => final'.info = Finish(writer, fs, mem).info]_vars

\* An in-memory writer with two records whose stream was read to the end.
C6_Witness ==
    /\ stream.done
    /\ final.op = "finish_read"
    /\ final.ok
    /\ BuiltInMemory
    /\ Len(accepted) >= 2

\* C7 (as stated): iter on the reopened file yields every appended record,
\* puts with their values and tombstones with their markers, in order.
C7_IterYieldsEveryRecord ==
    (ret.op = "iter" /\ BuiltDisk) => ret.out = accepted

\* C7 (amended): iter on the reopened file yields exactly the keys appended
\* via put, in the order appended and with their values; a key appended via
\* delete is not yielded.  Calling iter again yields the same sequence and
\* leaves the reader as it was.
C7_IterYieldsPuts ==
    /\ []((ret.op = "iter" /\ BuiltDisk) => ret.out = PutsOf(accepted))
    /\ [][ret'.op = "iter" => (reader' = reader /\ fs' = fs)]_vars
    /\ [][(ret.op = "iter" /\ ret'.op = "iter") => ret'.out = ret.out]_vars

\* iter on a file that holds a tombstone among puts.
C7_Witness ==
    /\ ret.op = "iter"
    /\ BuiltDisk
    /\ NumPuts(accepted) >= 1
    /\ NumDeletes(accepted) >= 1
    /\ accepted[1].kind = "delete"

\* C8: each of the four setters returns a builder (on which build can be
\* called) whose set field equals the argument.
C8_SettersReturnBuilder ==
    ret.op \in {"set_db", "set_cf", "set_in_memory", "set_compression_type"}
        => /\ ret.out = "Self"
           /\ phase = "builder"
           /\ CASE ret.op = "set_db" -> builder.db = ret.arg
                [] ret.op = "set_cf" -> builder.cf = ret.arg
                [] ret.op = "set_in_memory" -> builder.in_memory = ret.arg
                [] OTHER -> builder.compression_type = ret.arg

\* C9: after every successful build the options of the native writer have
\* the chosen algorithm (the explicit one, which is then supported, else the
\* fastest supported one) as compression, no per-level list and bottommost
\* compression disabled, so that the chosen algorithm is the one in effect;
\* the options of the source database are as they were.
C9_ChosenCompressionAlone ==
    (ret.op = "build" /\ ret.ok)
        => LET chosen == IF built.b.compression_type # None
                         THEN built.b.compression_type
                         ELSE get_fastest_supported_compression_type(supported)
           IN  /\ writer.native.opts.compression = chosen
               /\ writer.native.opts.compression_per_level = <<>>
               /\ writer.native.opts.bottommost_compression = "Disable"
               /\ EffectiveCompression(writer.native.opts) = chosen
               /\ built.b.compression_type # None => chosen \in supported
               /\ dbs = InitDbs

\* A build from a column family whose options carry per-level and bottommost
\* overrides, with an explicit algorithm.
C9_Witness ==
    /\ ret.op = "build"
    /\ ret.ok
    /\ built.b.db = "db1"
    /\ BuiltCf = "default"
    /\ InitDbs["db1"].cfs["default"].compression_per_level # <<>>
    /\ InitDbs["db1"].cfs["default"].bottommost_compression # "Disable"
    /\ built.b.compression_type = "Zlib"

\* C10 (as stated): in every finish_read call, one that ends in
\* MissingEnvironment included, the native writer has been finalized, and the
\* writer is consumed.
C10_AlwaysFinalized ==
    final.op = "finish_read"
        => (writer.native.finish_called /\ ~writer.open)

\* C10 (amended): finish_read consults the writer's environment first.  When
\* there is none it returns MissingEnvironment without finalizing: the native
\* writer is dropped unfinished and the file is left without its footer.
\* Otherwise it finalizes as finish does and only then opens the stream.  The
\* writer is consumed in every case.
C10_FinalizedUnlessMissingEnvironment ==
    final.op = "finish_read"
        => /\ ~writer.open
           /\ (final.err = "MissingEnvironment")
                <=> ~writer.native.finish_called
           /\ final.err = "MissingEnvironment"
                => /\ writer.native.state = "abandoned"
                   /\ ~Parse(fs[built.path].bytes).ok
           /\ final.ok => (writer.native.state = "finished" /\ stream.open)

\* A finish_read that ended in MissingEnvironment after a record was accepted.
C10_Witness ==
    /\ final.op = "finish_read"
    /\ final.err = "MissingEnvironment"
    /\ Len(accepted) >= 1
    /\ writer.native.state = "abandoned"

====
